---- MODULE Spec2Model ----
(***************************************************************************)
(* Model of the provisioning pipeline of anaconda-project:                 *)
(*   src/project/prepare.py  prepare(), _configure_prepare()               *)
(*   src/project/prepare.py  unprepare()                                   *)
(*   src/project/plugins/providers/download.py  DownloadProvider           *)
(*   src/anaconda_project/project_ops.py  the operations on a project      *)
(*   src/conda_kapsel/archiver.py  _unarchive_project()                    *)
(* One prepare call is a sequence of steps (pc) over the call's locals;    *)
(* the caller's environ, the current IOLoop and the project outlive it.    *)
(* Each part has its own specification; the variables of the other parts   *)
(* stay at rest in it.                                                     *)
(***************************************************************************)
EXTENDS Integers, Sequences, FiniteSets, TLC

(* ------------------------------ bounds -------------------------------- *)
MaxReqs == 2
MaxProviders == 2
MaxCalls == 2
MaxLogs == 1
MaxErrors == 1
\* logs and errors one provider appends where the order of the printed lines
\* is examined
MaxLogLines == 2
MaxErrorLines == 2
MaxServices == 2
MaxCommands == 2
MaxEntries == 2
MaxDepth == 4
\* service requirements of a project that match one name
MaxMatches == 2

(* ----------------------------- constants ------------------------------ *)
UI_MODE_TEXT == "text"
UI_MODE_BROWSER == "browser"
UI_MODE_NOT_INTERACTIVE == "not_interactive"
_all_ui_modes == {UI_MODE_TEXT, UI_MODE_BROWSER, UI_MODE_NOT_INTERACTIVE}

\* the ui_mode arguments a caller passes: the three modes and one other string
UiModeInputs == _all_ui_modes \cup {"bogus"}

\* Python's None where a reason string is expected, and where an IOLoop is
None == <<"None", 0>>
\* IOLoop objects are numbered from 1 in the order they are constructed;
\* loop 1 is the one that is current before the first call
NoLoop == 0
Unset == "<unset>"
NotCopied == "<no copy>"

ReqIds == 1..MaxReqs

\* environment keys: the env_var of each requirement a project may declare; a
\* key whose requirement the project does not declare is an unrelated variable
Keys == ReqIds
Values == {"old", "new"}
Environs == [Keys -> Values \cup {Unset}]
\* the local environ_copy before line 66 has bound it
NoCopy == [k \in Keys |-> NotCopied]

VARIABLES
    requirements,               \* project.requirements: sequence of requirement ids
    providers_of,               \* what requirement.find_providers(registry) returns
    environ,                    \* the caller's environ mapping (the dict object)
    current_loop,               \* IOLoop.current()
    nloops,                     \* IOLoop objects constructed so far
    ncalls,                     \* prepare calls started so far
    pc,                         \* position inside prepare
    ui_mode,                    \* argument
    io_loop,                    \* argument / local
    old_current_loop,           \* local
    environ_copy,               \* the dict object made by deepcopy
    requirements_and_providers, \* local
    local_state,                \* local: LocalStateFile handle
    plan,                       \* local
    idx,                        \* position of the plan loop (1-based)
    failed,                     \* local
    result,                     \* how the call ended
    stdout,                     \* lines printed to sys.stdout by this call
    stderr,                     \* lines printed to sys.stderr by this call
    printed,                    \* history: the lines of both streams, as printed
    trace,                      \* history: what the plan loop did, in order
    environ0,                   \* history: environ at call entry
    loop0,                      \* history: IOLoop.current() at call entry
    previous,                   \* history: result of the call before this one
    files,                      \* files that providers created on disk
    created                     \* history: the files created during this call

\* unprepare()
VARIABLES
    unprepare_pc,               \* position inside unprepare
    run_states,                 \* local_state's service run states, in memory
    saved_run_states,           \* the service run states in the local state file
    pending,                    \* names of copy(run_states) not yet iterated
    service_name,               \* loop variable of line 146
    command,                    \* position of the loop of line 150 (1-based)
    unprepare_result,           \* how the call ended
    calls,                      \* history: the subprocess.call calls, in order
    run_states0                 \* history: run_states at line 145

\* DownloadProvider: one call of provide or of read_config
VARIABLES
    download_op,                \* the method that was called, "none" before
    download_result,            \* how the call ended
    context_mode,               \* context.mode
    context_environ,            \* context.environ.get(requirement.env_var)
    context_errors,             \* context.errors
    context_logs,               \* context.logs
    config_source,              \* context.status.analysis.config['source']
    existing_filename,          \* context.status.analysis.existing_filename
    downloaded,                 \* the destination file exists on disk
    fetches,                    \* history: downloads started (run_sync calls)
    stored_source,              \* the 'source' the superclass read_config loads
    returned_source,            \* the 'source' of the config read_config returned
    environ_after_super,        \* history: the env var after line 115
    entry                       \* history: environ and stored source at entry

\* project_ops: operations called one after the other on one project
VARIABLES
    project_file,               \* project.project_file: the manifest in memory
    saved_project_file,         \* the manifest on disk
    local_state_variables,      \* the local state file holds a variable's value
    problems,                   \* project.problems is non-empty
    op,                         \* history: the operation called last
    status,                     \* history: what it returned
    ran,                        \* history: prepare / unprepare run it made,
                                \* "unprepare failed" for a falsy unprepare
    before                      \* history: manifests and local state at its entry

\* _unarchive_project: one call
VARIABLES
    names,                      \* list_files(archive_path): the entries' paths
    on_disk,                    \* the paths that exist under the parent directory
    unarchive_result,           \* how the call ended
    on_disk0                    \* history: on_disk at entry

PrepareVars ==
    <<requirements, providers_of, environ, current_loop, nloops, ncalls, pc,
      ui_mode, io_loop, old_current_loop, environ_copy,
      requirements_and_providers, local_state, plan, idx, failed, result,
      stdout, stderr, printed, trace, environ0, loop0, previous, files, created>>
UnprepareVars ==
    <<unprepare_pc, run_states, saved_run_states, pending, service_name, command,
      unprepare_result, calls, run_states0>>

DownloadVars ==
    <<download_op, download_result, context_mode, context_environ, context_errors,
      context_logs, config_source, existing_filename, downloaded, fetches,
      stored_source, returned_source, environ_after_super, entry>>

OpsVars ==
    <<project_file, saved_project_file, local_state_variables, problems, op,
      status, ran, before>>

ArchiveVars == <<names, on_disk, unarchive_result, on_disk0>>

vars == <<PrepareVars, UnprepareVars, DownloadVars, OpsVars, ArchiveVars>>
\* what no step of prepare() touches
Elsewhere == <<UnprepareVars, DownloadVars, OpsVars, ArchiveVars>>

(* ----------------------------- helpers -------------------------------- *)
Range(s) == {s[i] : i \in 1..Len(s)}

\* sequences without repetition over S, of length at most n
RECURSIVE DistinctSeqs(_, _)
DistinctSeqs(S, n) ==
    IF n = 0 THEN {<<>>}
    ELSE LET shorter == DistinctSeqs(S, n - 1)
         IN  shorter \cup UNION {{Append(s, x) : x \in S \ Range(s)} : s \in shorter}

RECURSIVE Concat(_)
\* the concatenation of a sequence of sequences
Concat(ss) == IF ss = <<>> THEN <<>> ELSE Head(ss) \o Concat(Tail(ss))

(* ------------------------ requirement interface ----------------------- *)
\* the registry's order of the providers of one kind
RegistryOrder == [j \in 1..MaxProviders |-> MaxProviders + 1 - j]
\* the lists a lookup returns: the first n providers in registry order
ProviderLists == {SubSeq(RegistryOrder, 1, n) : n \in 0..MaxProviders}

env_var(r) == r
title(r) == <<"title", r>>

\* Requirement.why_not_provided(environ): None when satisfied, else a reason
why_not_provided(r, env) ==
    IF env[env_var(r)] # Unset THEN None ELSE <<"not set", env_var(r)>>

\* requirement.find_providers(provider_registry)
find_providers(r) == providers_of[r]

(* ------------------------------ output -------------------------------- *)
\* the n-th log / error of the context of plan entry i, as printed
LogLine(i, n) == <<"log", <<"entry", i>>, n>>
ErrorLine(i, n) == <<"error", <<"entry", i>>, n>>
\* lines 114-116
MissingLine(r) == <<"missing requirement to run this project", title(r), 0>>
WhyNotLine(why_not) == <<"why_not", why_not, 0>>

\* what the plan loop did at entry i
\* and the why_not of line 95 it acted on; nerrors is len(context.errors)
SkipEvent(i, why) == <<"skip", i, why, 0>>
ReadConfigEvent(i, why) == <<"read_config", i, why, 0>>
ProvideEvent(i, why, nerrors) == <<"provide", i, why, nerrors>>

(* ----------------------- decisions of prepare() ----------------------- *)
ValidUiModeAny(mode) == TRUE
\* line 50: the ui_mode check at call entry
ValidUiMode(mode) == mode \in _all_ui_modes

\* line 66: deepcopy(environ) makes a new dict with the same items
deepcopy(env) == env

ProvideContextCaller == "environ"
\* line 99: the dict object ProvideContext is built around
ProvideContextEnviron == "environ_copy"

ShouldSkipNever(why_not) == FALSE
\* lines 96-97: a satisfied requirement's plan entry is not run
ShouldSkip(why_not) == why_not = None

NextEntryAbortOnError(i, nerrors) == IF nerrors > 0 THEN Len(plan) + 1 ELSE i + 1
\* lines 94, 101-108: after an entry, whatever its errors, the next entry is up
NextEntry(i, nerrors) == i + 1

BuildPlanProviderMajor(rap) ==
    Concat([j \in 1..MaxProviders |->
               Concat([i \in 1..Len(rap) |->
                          IF j <= Len(rap[i][2]) THEN <<<<rap[i][2][j], rap[i][1]>>>>
                          ELSE <<>>])])
\* lines 89-92: the plan, flattened from requirements_and_providers
BuildPlan(rap) ==
    Concat([i \in 1..Len(rap) |->
               [j \in 1..Len(rap[i][2]) |-> <<rap[i][2][j], rap[i][1]>>]])

ValidatedRequirementsWithProviders ==
    SelectSeq(requirements, LAMBDA r : find_providers(r) # <<>>)
\* line 111: the requirements the validation pass walks
ValidatedRequirements == requirements

\* lines 112-116: what validation prints for one requirement
ValidationLines(r, env) ==
    IF why_not_provided(r, env) # None
    THEN <<MissingLine(r), WhyNotLine(why_not_provided(r, env))>>
    ELSE <<>>

FailedLastOnly(reqs, env) ==
    reqs # <<>> /\ why_not_provided(reqs[Len(reqs)], env) # None
\* lines 110-117: the value of failed after the validation loop
Failed(reqs, env) == \E i \in 1..Len(reqs) : why_not_provided(reqs[i], env) # None

CommitWritesMissingOnly(env, key, value) == env[key] = Unset
\* line 126: whether the commit loop writes this key
CommitWrites(env, key, value) == env[key] = Unset \/ env[key] # value

CommitMirrorsCopy(env, copy) == copy
\* lines 125-127: environ after the commit loop over environ_copy.items()
Commit(env, copy) ==
    [k \in Keys |->
        IF copy[k] # Unset /\ CommitWrites(env, k, copy[k]) THEN copy[k] ELSE env[k]]

EnvironAtReturnAlwaysCommit(fail, env, copy) == Commit(env, copy)
\* lines 122-128: environ when the call returns
EnvironAtReturn(fail, env, copy) == IF fail THEN env ELSE Commit(env, copy)

ProvideContextReused(i, nlogs, nerrors) ==
    [logs |-> [n \in 1..(nlogs + 1) |-> IF n = 1 THEN LogLine(i - 1, 1) ELSE LogLine(i, n - 1)],
     errors |-> [n \in 1..(nerrors + 1) |->
                    IF n = 1 THEN ErrorLine(i - 1, 1) ELSE ErrorLine(i, n - 1)]]
\* line 99: the context built for plan entry i, with the nlogs logs and the
\* nerrors errors that the provider appended to it (line 100)
ProvideContext(i, nlogs, nerrors) ==
    [logs |-> [n \in 1..nlogs |-> LogLine(i, n)],
     errors |-> [n \in 1..nerrors |-> ErrorLine(i, n)]]

PrintsErrorsFirst(context) ==
    IF context.errors # <<>> THEN context.errors \o context.logs ELSE <<>>
\* lines 101-108: the lines printed for one context, in print order
Prints(context) ==
    IF context.errors # <<>> THEN context.logs \o context.errors
    ELSE context.errors

\* the lines among printed that went to sys.stdout (lines 102-103) and to
\* sys.stderr (line 108)
ToStdout(lines) == SelectSeq(lines, LAMBDA l : l[1] = "log")
ToStderr(lines) == SelectSeq(lines, LAMBDA l : l[1] # "log")

FilesAtReturnRolledBack(fail, fs, made) == IF fail THEN fs \ made ELSE fs
\* lines 119-128: what the end of the call does to the files providers made
FilesAtReturn(fail, fs, made) == fs

(* ------------------------------ actions ------------------------------- *)
\* the call ends: by return (result "True"/"False") or by an exception
Finish(res) ==
    /\ pc' = "done"
    /\ result' = res

Locals == <<io_loop, old_current_loop, requirements_and_providers, local_state,
            plan, idx, failed>>
Output == <<stdout, stderr, printed>>
Project == <<requirements, providers_of>>
Global == <<current_loop, nloops, ncalls>>
Entry == <<ui_mode, environ0, loop0, previous>>
\* the file system as the providers left it
World == <<files, created>>

\* a caller calls prepare(project, ui_mode=mode, io_loop=..., environ=environ)
Call(mode, given) ==
    /\ pc \in {"idle", "done"}
    /\ ncalls < MaxCalls
    /\ ncalls' = ncalls + 1
    /\ ui_mode' = mode
    /\ io_loop' = IF given THEN current_loop ELSE NoLoop
    /\ old_current_loop' = NoLoop
    /\ environ_copy' = NoCopy
    /\ requirements_and_providers' = <<>>
    /\ local_state' = "unloaded"
    /\ plan' = <<>>
    /\ idx' = 0
    /\ failed' = FALSE
    /\ result' = "none"
    /\ stdout' = <<>>
    /\ stderr' = <<>>
    /\ printed' = <<>>
    /\ trace' = <<>>
    /\ environ0' = environ
    /\ loop0' = current_loop
    /\ previous' = result
    /\ created' = {}
    /\ pc' = "check_ui_mode"
    /\ UNCHANGED <<Elsewhere, Project, files, environ, current_loop, nloops>>

\* lines 50-51
CheckUiMode ==
    /\ pc = "check_ui_mode"
    /\ IF ~ValidUiMode(ui_mode)
       THEN Finish("ValueError")
       ELSE pc' = "setup_loop" /\ UNCHANGED result
    /\ UNCHANGED <<Elsewhere, World, Project, Global, Entry, Locals, Output, environ, environ_copy, trace>>

\* lines 56-60
SetupLoop ==
    /\ pc = "setup_loop"
    /\ IF io_loop = NoLoop
       THEN /\ old_current_loop' = current_loop
            /\ nloops' = nloops + 1
            /\ io_loop' = nloops + 1
            /\ current_loop' = nloops + 1
       ELSE UNCHANGED <<old_current_loop, nloops, io_loop, current_loop>>
    /\ pc' = "copy_environ"
    /\ UNCHANGED <<Elsewhere, World, Project, Entry, Output, environ, environ_copy, ncalls,
                   requirements_and_providers, local_state, plan, idx, failed,
                   result, trace>>

\* line 66
CopyEnviron ==
    /\ pc = "copy_environ"
    /\ environ_copy' = deepcopy(environ)
    /\ pc' = "find_providers"
    /\ UNCHANGED <<Elsewhere, World, Project, Global, Entry, Locals, Output, environ, result, trace>>

\* lines 68-73
FindProviders ==
    /\ pc = "find_providers"
    /\ requirements_and_providers' =
           [i \in 1..Len(requirements) |->
               <<requirements[i], find_providers(requirements[i])>>]
    /\ pc' = "load_local_state"
    /\ UNCHANGED <<Elsewhere, World, Project, Global, Entry, Output, environ, environ_copy, io_loop,
                   old_current_loop, local_state, plan, idx, failed, result, trace>>

\* line 75: LocalStateFile.load_for_directory returns the handle
LoadLocalState ==
    /\ pc = "load_local_state"
    /\ local_state' = "loaded"
    /\ pc' = "configure"
    /\ UNCHANGED <<Elsewhere, World, Project, Global, Entry, Output, environ, environ_copy, io_loop,
                   old_current_loop, requirements_and_providers, plan, idx, failed,
                   result, trace>>

\* line 75: LocalStateFile.load_for_directory raises
LoadLocalStateRaises ==
    /\ pc = "load_local_state"
    /\ Finish("Exception")
    /\ UNCHANGED <<Elsewhere, World, Project, Global, Entry, Locals, Output, environ, environ_copy, trace>>

\* lines 77-82 and 23-29: the configure UI of the mode runs and returns.
\* NotInteractivePrepareUI does nothing; BrowserPrepareUI may have stored
\* config values through the local-state handle it was given.
ConfigurePrepare(stored) ==
    /\ pc = "configure"
    /\ \/ ui_mode = UI_MODE_NOT_INTERACTIVE /\ ~stored
       \/ ui_mode = UI_MODE_BROWSER
    /\ local_state' = IF stored THEN "configured" ELSE local_state
    /\ pc' = "build_plan"
    /\ UNCHANGED <<Elsewhere, World, Project, Global, Entry, Output, environ, environ_copy, io_loop,
                   old_current_loop, requirements_and_providers, plan, idx, failed,
                   result, trace>>

\* line 29: BrowserPrepareUI.configure_prepare raises
ConfigurePrepareRaises ==
    /\ pc = "configure"
    /\ ui_mode = UI_MODE_BROWSER
    /\ Finish("Exception")
    /\ UNCHANGED <<Elsewhere, World, Project, Global, Entry, Locals, Output, environ, environ_copy, trace>>

\* lines 24-29: neither branch bound the local ui, and line 29 reads it
ConfigurePrepareUnbound ==
    /\ pc = "configure"
    /\ ui_mode # UI_MODE_NOT_INTERACTIVE
    /\ ui_mode # UI_MODE_BROWSER
    /\ Finish("UnboundLocalError")
    /\ UNCHANGED <<Elsewhere, World, Project, Global, Entry, Locals, Output, environ, environ_copy, trace>>

\* lines 89-92
MakePlan ==
    /\ pc = "build_plan"
    /\ plan' = BuildPlan(requirements_and_providers)
    /\ idx' = 1
    /\ pc' = "plan_loop"
    /\ UNCHANGED <<Elsewhere, World, Project, Global, Entry, Output, environ, environ_copy, io_loop,
                   old_current_loop, requirements_and_providers, local_state,
                   failed, result, trace>>

InPlanLoop == pc = "plan_loop" /\ idx <= Len(plan)
\* the requirement of the plan entry the loop is at
requirement == plan[idx][2]
why_notOfCallerEnviron == why_not_provided(requirement, environ)
\* line 95
why_not == why_not_provided(requirement, environ_copy)

\* lines 94-97: the entry's requirement is satisfied, continue
SkipEntry ==
    /\ InPlanLoop
    /\ ShouldSkip(why_not)
    /\ trace' = Append(trace, SkipEvent(idx, why_not))
    /\ idx' = idx + 1
    /\ UNCHANGED <<Elsewhere, World, Project, Global, Entry, Output, environ, environ_copy, io_loop,
                   old_current_loop, requirements_and_providers, local_state, plan,
                   failed, result, pc>>

\* line 98: provider.read_config raises
ReadConfigRaises ==
    /\ InPlanLoop
    /\ ~ShouldSkip(why_not)
    /\ trace' = Append(trace, ReadConfigEvent(idx, why_not))
    /\ Finish("Exception")
    /\ UNCHANGED <<Elsewhere, World, Project, Global, Entry, Locals, Output, environ, environ_copy>>

\* the dict object obj after context.environ[key] = value (Unset: pop(key))
Written(obj, key, value) ==
    IF obj = "environ_copy" THEN [environ_copy EXCEPT ![key] = value]
    ELSE [environ EXCEPT ![key] = value]

\* the provider's write lands in the dict that ProvideContext was built around
ProviderWrites(key, value) ==
    IF ProvideContextEnviron = "environ_copy"
    THEN /\ environ_copy' = Written("environ_copy", key, value)
         /\ UNCHANGED environ
    ELSE /\ environ' = Written("environ", key, value)
         /\ UNCHANGED environ_copy

\* the provider creates the file of its requirement, or no file
ProviderCreates(creates) ==
    /\ files' = IF creates THEN files \cup {requirement} ELSE files
    /\ created' = IF creates THEN created \cup {requirement} ELSE created

\* lines 98-108: read_config, a new ProvideContext, provide, then the prints.
\* The provider sets or pops one key of context.environ (or rewrites a key to
\* the value it has), may create a file for its requirement, appends nlogs
\* logs and nerrors errors, and returns.
ProvideEntry(key, value, creates, nlogs, nerrors) ==
    /\ InPlanLoop
    /\ ~ShouldSkip(why_not)
    /\ ProviderWrites(key, value)
    /\ ProviderCreates(creates)
    /\ trace' = trace \o <<ReadConfigEvent(idx, why_not), ProvideEvent(idx, why_not, nerrors)>>
    /\ printed' = printed \o Prints(ProvideContext(idx, nlogs, nerrors))
    /\ stdout' = stdout \o ToStdout(Prints(ProvideContext(idx, nlogs, nerrors)))
    /\ stderr' = stderr \o ToStderr(Prints(ProvideContext(idx, nlogs, nerrors)))
    /\ idx' = NextEntry(idx, nerrors)
    /\ UNCHANGED <<Elsewhere, Project, Global, Entry, io_loop, old_current_loop,
                   requirements_and_providers, local_state, plan, failed, result, pc>>

\* line 100: provider.provide raises, after the write and the file it may
\* have made
ProvideRaises(key, value, creates) ==
    /\ InPlanLoop
    /\ ~ShouldSkip(why_not)
    /\ ProviderWrites(key, value)
    /\ ProviderCreates(creates)
    /\ trace' = trace \o <<ReadConfigEvent(idx, why_not), ProvideEvent(idx, why_not, 0)>>
    /\ Finish("Exception")
    /\ UNCHANGED <<Elsewhere, Project, Global, Entry, Locals, Output>>

\* lines 110-117, once the plan loop is over
Validate ==
    /\ pc = "plan_loop"
    /\ idx > Len(plan)
    /\ stderr' = stderr \o
           Concat([i \in 1..Len(ValidatedRequirements) |->
                      ValidationLines(ValidatedRequirements[i], environ_copy)])
    /\ printed' = printed \o
           Concat([i \in 1..Len(ValidatedRequirements) |->
                      ValidationLines(ValidatedRequirements[i], environ_copy)])
    /\ failed' = Failed(ValidatedRequirements, environ_copy)
    /\ pc' = "restore_loop"
    /\ UNCHANGED <<Elsewhere, World, Project, Global, Entry, environ, environ_copy, io_loop,
                   old_current_loop, requirements_and_providers, local_state, plan,
                   idx, result, stdout, trace>>

\* lines 119-120
RestoreLoop ==
    /\ pc = "restore_loop"
    /\ current_loop' = IF old_current_loop # NoLoop THEN old_current_loop
                       ELSE current_loop
    /\ pc' = "return"
    /\ UNCHANGED <<Elsewhere, World, Project, Entry, Locals, Output, environ, environ_copy, nloops,
                   ncalls, result, trace>>

\* lines 122-128
Return ==
    /\ pc = "return"
    /\ environ' = EnvironAtReturn(failed, environ, environ_copy)
    /\ files' = FilesAtReturn(failed, files, created)
    /\ Finish(IF failed THEN "False" ELSE "True")
    /\ UNCHANGED <<Elsewhere, Project, Global, Entry, Locals, Output, environ_copy, trace, created>>

(* ------------------- unprepare(): service run states ------------------ *)
ServiceNames == 1..MaxServices
\* the run state of a service: none recorded, dict(), a non-empty dict without
\* the key 'shutdown_commands', or a dict whose 'shutdown_commands' has n items
NotRecorded == <<"not recorded", 0>>
EmptyDict == <<"dict()", 0>>
NoShutdownCommands == <<"no shutdown_commands", 0>>
ShutdownCommands(n) == <<"shutdown_commands", n>>
RunStates ==
    {NotRecorded, EmptyDict, NoShutdownCommands}
        \cup {ShutdownCommands(n) : n \in 0..MaxCommands}
\* what subprocess.call returns; CannotStart marks a call that raised OSError
ExitCodes == {0, 1}
CannotStart == -1

\* unprepare has not been called
UnprepareAtRest ==
    /\ unprepare_pc = "idle"
    /\ run_states = [s \in ServiceNames |-> NotRecorded]
    /\ saved_run_states = run_states
    /\ pending = {}
    /\ service_name = 0
    /\ command = 0
    /\ unprepare_result = "none"
    /\ calls = <<>>
    /\ run_states0 = run_states

(* ------------------------- DownloadProvider ---------------------------- *)
PROVIDE_MODE_CHECK == "check"
ProvideModes == {"production", "development", PROVIDE_MODE_CHECK}
\* the destination path of the download, and None where a filename is expected
Filename == "filename"
NoFile == "<no file>"
\* values of the env var in context.environ: absent, set by the user or by the
\* superclass to some value, or set to the destination path
EnvVarValues == {Unset, "old", "configured", Filename}
\* the 'source' of the config the superclass read_config hands back
LoadedSources == {"unset", "default", "download", "environ", "variables"}
\* how the attempt of lines 92-96 goes: the response code, or what raises
DownloadOutcomes ==
    {"200", "404", "run_sync raises", "IOLoop raises", "FileDownloader raises"}

\* no method of the provider has been called
DownloadAtRest ==
    /\ download_op = "none"
    /\ download_result = "none"
    /\ context_mode = PROVIDE_MODE_CHECK
    /\ context_environ = Unset
    /\ context_errors = <<>>
    /\ context_logs = <<>>
    /\ config_source = "download"
    /\ existing_filename = NoFile
    /\ downloaded = FALSE
    /\ fetches = 0
    /\ stored_source = "unset"
    /\ returned_source = "none"
    /\ environ_after_super = Unset
    /\ entry = <<Unset, "unset">>

(* ---------------------------- project_ops ----------------------------- *)
\* what a manifest may hold: the project name, a download, a service, an
\* environment spec and a package of it, a variable, a command
ManifestEntries ==
    {"name", "downloads", "services", "environments", "dependencies", "variables",
     "commands"}
Manifests == {m \in SUBSET ManifestEntries : "dependencies" \in m => "environments" \in m}

\* no operation has been called on a project with an empty manifest
OpsAtRest ==
    /\ project_file = {}
    /\ saved_project_file = {}
    /\ local_state_variables = FALSE
    /\ problems = FALSE
    /\ op = "none"
    /\ status = "none"
    /\ ran = "none"
    /\ before = <<{}, {}, FALSE>>

(* ------------------------------ archiver ------------------------------ *)
\* a path is a sequence of components, a component a sequence of characters:
\* the directory names "p" and "pq", the file name "f", and ".."
DotDot == <<".", ".">>
Components == {<<"p">>, <<"p", "q">>, <<"f">>, DotDot}
\* the paths of archive entries, and the lists of them
EntryNames == UNION {[1..n -> Components] : n \in 1..MaxDepth}
\* canonical_parent_dir: the directory "/h"
ParentDir == <<<<"h">>>>

\* _unarchive_project has not been called
ArchiveAtRest ==
    /\ names = <<>>
    /\ on_disk = {}
    /\ unarchive_result = "none"
    /\ on_disk0 = {}

(* --------------------------- specification ---------------------------- *)
\* values a provider stores under a key; Unset stands for popping the key
ProviderValues == {"new", Unset}

Init ==
    /\ requirements \in DistinctSeqs(ReqIds, MaxReqs)
    /\ providers_of \in [ReqIds -> ProviderLists]
    \* a requirement the project does not declare is never looked up
    /\ \A r \in ReqIds \ Range(requirements) : providers_of[r] = <<>>
    /\ environ \in {e \in Environs : \A k \in Keys : e[k] # "new"}
    /\ current_loop = 1
    /\ nloops = 1
    /\ ncalls = 0
    /\ pc = "idle"
    /\ ui_mode = UI_MODE_NOT_INTERACTIVE
    /\ io_loop = NoLoop
    /\ old_current_loop = NoLoop
    /\ environ_copy = NoCopy
    /\ requirements_and_providers = <<>>
    /\ local_state = "unloaded"
    /\ plan = <<>>
    /\ idx = 0
    /\ failed = FALSE
    /\ result = "none"
    /\ stdout = <<>>
    /\ stderr = <<>>
    /\ printed = <<>>
    /\ trace = <<>>
    /\ environ0 = environ
    /\ loop0 = 1
    /\ previous = "none"
    /\ files = {}
    /\ created = {}
    /\ UnprepareAtRest
    /\ DownloadAtRest
    /\ OpsAtRest
    /\ ArchiveAtRest

\* the steps of prepare other than the provider calls of lines 98-100
EngineStep ==
    \/ \E mode \in UiModeInputs, given \in BOOLEAN : Call(mode, given)
    \/ CheckUiMode
    \/ SetupLoop
    \/ CopyEnviron
    \/ FindProviders
    \/ LoadLocalState
    \/ LoadLocalStateRaises
    \/ \E stored \in BOOLEAN : ConfigurePrepare(stored)
    \/ ConfigurePrepareRaises
    \/ ConfigurePrepareUnbound
    \/ MakePlan
    \/ SkipEntry
    \/ ReadConfigRaises
    \/ Validate
    \/ RestoreLoop
    \/ Return

\* prepare with providers whose only effects are on context: the engine neither
\* reads nor writes files, so the other variables behave the same with them
Next ==
    \/ EngineStep
    \/ \E key \in Keys, value \in ProviderValues,
          nlogs \in 0..MaxLogs, nerrors \in 0..MaxErrors :
            ProvideEntry(key, value, FALSE, nlogs, nerrors)
    \/ \E key \in Keys, value \in ProviderValues : ProvideRaises(key, value, FALSE)

Spec == Init /\ [][Next]_vars

\* prepare with providers that may create a file, on a project that declares
\* MaxReqs requirements, from an environ that sets none of their variables
InitFiles ==
    /\ Init
    /\ Len(requirements) = MaxReqs
    /\ \A k \in Keys : environ[k] = Unset

NextFiles ==
    \/ EngineStep
    \/ \E key \in Keys, value \in ProviderValues, creates \in BOOLEAN,
          nerrors \in 0..MaxErrors :
            ProvideEntry(key, value, creates, 0, nerrors)
    \/ \E key \in Keys, value \in ProviderValues, creates \in BOOLEAN :
          ProvideRaises(key, value, creates)

SpecFiles == InitFiles /\ [][NextFiles]_vars

\* prepare with providers that append no log or MaxLogLines logs, and no error
\* or MaxErrorLines errors, on the same projects and environs as above
NextOutput ==
    \/ EngineStep
    \/ \E key \in Keys, value \in ProviderValues,
          nlogs \in {0, MaxLogLines}, nerrors \in {0, MaxErrorLines} :
            ProvideEntry(key, value, FALSE, nlogs, nerrors)
    \/ \E key \in Keys, value \in ProviderValues : ProvideRaises(key, value, FALSE)

SpecOutput == InitFiles /\ [][NextOutput]_vars

(* ------------------------- claims: vocabulary -------------------------- *)
Returned == pc = "done" /\ result \in {"True", "False"}
Succeeded == pc = "done" /\ result = "True"
FailedCall == pc = "done" /\ result = "False"
InCall == pc \notin {"idle", "done"}
\* the plan loop ran to its end
PlanLoopOver == pc \in {"restore_loop", "return"} \/ Returned

Satisfied(r, env) == why_not_provided(r, env) = None
AllSatisfied(env) == \A i \in 1..Len(requirements) : Satisfied(requirements[i], env)

IsProviderCall(e) == e[1] \in {"read_config", "provide"}
ProviderCalls == SelectSeq(trace, IsProviderCall)
ProvideCalls == SelectSeq(trace, LAMBDA e : e[1] = "provide")
ErrorLines == SelectSeq(stderr, LAMBDA l : l[1] = "error")
MissingLines == SelectSeq(stderr, LAMBDA l : l[1] # "error")

\* C1: a call that returns False leaves the caller's environ as it was at entry
C1_FailedCallKeepsEnviron == FailedCall => environ = environ0

\* a failed call whose providers wrote into the working copy
C1_Witness ==
    /\ FailedCall
    /\ \E k \in Keys : environ_copy[k] # environ0[k]
    /\ ProvideCalls # <<>>

\* C2: in every state of a call before the commit step (entry check, setup,
\* configuring, each plan entry, validation) environ is its value at entry
C2_EnvironUntouchedBeforeCommit == InCall => environ = environ0

\* validation is over, providers changed the working copy, nothing committed
C2_Witness ==
    /\ pc = "return"
    /\ ~failed
    /\ \E k \in Keys : environ_copy[k] # environ0[k]
    /\ environ = environ0

\* C3: after a call that returns True, environ holds the working copy's final
\* value for every key of the working copy
C3_SuccessCommitsWorkingCopy ==
    Succeeded => \A k \in Keys : environ_copy[k] # Unset => environ[k] = environ_copy[k]

\* a successful call that added one key and changed the value of another
C3_Witness ==
    /\ Succeeded
    /\ \E k \in Keys : environ0[k] = Unset /\ environ[k] = "new"
    /\ \E k \in Keys : environ0[k] = "old" /\ environ[k] = "new"

\* C4: a call that returns reports success exactly when every requirement of
\* the project is satisfied in the final working copy
C4_SuccessIffAllSatisfied ==
    Returned => (result = "True" <=> AllSatisfied(environ_copy))

\* success although a provider appended an error
C4_Witness == Succeeded /\ ErrorLines # <<>> /\ ProvideCalls # <<>>

\* C5: a call made on the environ that a successful call left makes no
\* read_config and no provide call; and a call entered with every requirement
\* already present in environ makes none either and, when it returns, returns
\* True with environ as it was at entry
C5_SecondRunCallsNoProvider ==
    /\ (ncalls >= 2 /\ previous = "True") => ProviderCalls = <<>>
    /\ (ncalls >= 1 /\ AllSatisfied(environ0)) =>
          /\ ProviderCalls = <<>>
          /\ Returned => (result = "True" /\ environ = environ0)

\* the second call, after a first that succeeded by running providers, walked
\* a plan of several entries and skipped every one of them
C5_Witness ==
    /\ ncalls = 2
    /\ previous = "True"
    /\ Succeeded
    /\ Len(plan) >= 2
    /\ Len(trace) = Len(plan)
    /\ \E i \in 1..Len(requirements) : environ[env_var(requirements[i])] = "new"

\* position of requirement r in project.requirements
ReqPos(r) == CHOOSE i \in 1..Len(requirements) : requirements[i] = r
\* position of provider p in what find_providers returned for r
ProvPos(r, p) == CHOOSE j \in 1..Len(find_providers(r)) : find_providers(r)[j] = p
RECURSIVE SumLen(_)
SumLen(ss) == IF ss = <<>> THEN 0 ELSE Len(Head(ss)) + SumLen(Tail(ss))
PlanBuilt == pc \in {"plan_loop", "restore_loop", "return"} \/ Returned

\* C6: the plan lists each (provider, requirement) pair once, by requirement
\* declaration order and then by find_providers order; the provide calls of
\* a call are made at strictly increasing plan positions
C6_ProvideCallsFollowPlan ==
    /\ PlanBuilt =>
          /\ Len(plan) = SumLen([i \in 1..Len(requirements) |->
                                    find_providers(requirements[i])])
          /\ \A a \in 1..Len(plan) :
                /\ plan[a][2] \in Range(requirements)
                /\ plan[a][1] \in Range(find_providers(plan[a][2]))
          /\ \A a, b \in 1..Len(plan) : a < b =>
                \/ ReqPos(plan[a][2]) < ReqPos(plan[b][2])
                \/ /\ plan[a][2] = plan[b][2]
                   /\ ProvPos(plan[a][2], plan[a][1]) < ProvPos(plan[b][2], plan[b][1])
    /\ \A a, b \in 1..Len(ProvideCalls) : a < b => ProvideCalls[a][2] < ProvideCalls[b][2]
    /\ \A a \in 1..Len(ProvideCalls) : ProvideCalls[a][2] \in 1..Len(plan)

\* three provide calls in one call of a project whose declaration order is
\* not the order of the requirement ids
C6_Witness ==
    /\ Returned
    /\ Len(ProvideCalls) >= 3
    /\ Len(requirements) = 2
    /\ requirements[1] > requirements[2]

\* C7: once the plan loop is over, every plan entry after one whose provider
\* appended errors was either run, or found satisfied when its turn came
C7_LaterEntriesRunAfterFailure ==
    PlanLoopOver =>
        \A a \in 1..Len(trace) :
            (trace[a][1] = "provide" /\ trace[a][4] > 0) =>
                \A i \in (trace[a][2] + 1)..Len(plan) :
                    \E b \in (a + 1)..Len(trace) :
                        /\ trace[b][2] = i
                        /\ \/ trace[b][1] = "provide"
                           \/ trace[b][1] = "skip" /\ trace[b][3] = None

\* the provider of the first requirement failed and left its variable unset;
\* the provider of the second one ran afterwards and set its variable
C7_Witness ==
    /\ FailedCall
    /\ Len(requirements) = 2
    /\ Len(ProvideCalls) = 2
    /\ ProvideCalls[1][4] > 0
    /\ plan[ProvideCalls[1][2]][2] = requirements[1]
    /\ plan[ProvideCalls[2][2]][2] = requirements[2]
    /\ environ_copy[env_var(requirements[1])] = Unset
    /\ environ0[env_var(requirements[2])] = Unset
    /\ environ_copy[env_var(requirements[2])] = "new"

\* every plan entry has been handled by the loop
AllEntriesHandled == \A i \in 1..Len(plan) : \E a \in 1..Len(trace) : trace[a][2] = i

\* C8: validation output appears only once the whole plan has been processed,
\* and then names every requirement of the project that is unsatisfied in the
\* working copy, with or without providers, by title followed by its reason,
\* and names no other
C8_ValidationReportsEveryUnmet ==
    /\ MissingLines # <<>> => (PlanLoopOver /\ idx > Len(plan) /\ AllEntriesHandled)
    /\ PlanLoopOver =>
          /\ \A i \in 1..Len(requirements) :
                LET r == requirements[i]
                    why == why_not_provided(r, environ_copy)
                IN  IF why # None
                    THEN \E j \in 1..(Len(stderr) - 1) :
                            stderr[j] = MissingLine(r) /\ stderr[j + 1] = WhyNotLine(why)
                    ELSE MissingLine(r) \notin Range(stderr)
          /\ Len(MissingLines) =
                2 * Cardinality({i \in 1..Len(requirements) :
                                    ~Satisfied(requirements[i], environ_copy)})

\* two unmet requirements reported, one with providers that ran and one with
\* an empty provider list
C8_Witness ==
    /\ FailedCall
    /\ Len(requirements) = 2
    /\ find_providers(requirements[1]) = <<>>
    /\ ProvideCalls # <<>>
    /\ Len(MissingLines) = 4

\* C9 (as claimed, in the calls where no collaborator raised): a call with a
\* valid ui_mode ends by returning True or False; no exception leaves prepare.
\* "Exception" is the result of a call that a raising collaborator ended, which
\* the claim covers as well and which the code does not catch either.
C9_NoExceptionEscapes ==
    (pc = "done" /\ ui_mode \in _all_ui_modes /\ result # "Exception")
        => result \in {"True", "False"}

\* C10: a call whose ui_mode is not a recognized mode ends at the entry check
\* with ValueError, with no loop made, no copy, no providers resolved, no
\* local state loaded, no configure step and environ untouched
C10_InvalidModeRejectedAtEntry ==
    (ncalls >= 1 /\ ui_mode \notin _all_ui_modes) =>
        /\ pc \in {"check_ui_mode", "done"}
        /\ pc = "done" => result = "ValueError"
        /\ io_loop \in {NoLoop, loop0}
        /\ old_current_loop = NoLoop
        /\ current_loop = loop0
        /\ environ_copy = NoCopy
        /\ requirements_and_providers = <<>>
        /\ local_state = "unloaded"
        /\ plan = <<>>
        /\ trace = <<>>
        /\ stdout = <<>> /\ stderr = <<>>
        /\ environ = environ0

\* a call with an unrecognized mode has been rejected
C10_Witness == pc = "done" /\ ui_mode = "bogus" /\ result = "ValueError"

\* C11 (as claimed): in each of the three modes the configure step completes
\* and the call goes on to the plan loop (idx is bound from line 94 on); in
\* particular a call with ui_mode "text" reaches the executing phase. Stated
\* for the calls in which no collaborator raised.
C11_ExecutingReachedInEveryMode ==
    (pc = "done" /\ ui_mode \in _all_ui_modes /\ result # "Exception") => idx >= 1

\* C20: the file that a provider created during a call is on disk in every
\* later state of the call and after it, also when the call returns False
\* because another requirement stayed unsatisfied: nothing is rolled back
C20_NoRollbackOfProviderFiles == (ncalls >= 1) => created \subseteq files

\* a failed call: the provider of the first requirement succeeded, set its
\* variable and created its file; the second requirement stayed unsatisfied
C20_Witness ==
    /\ FailedCall
    /\ Len(requirements) = 2
    /\ requirements[1] \in created
    /\ environ_copy[env_var(requirements[1])] = "new"
    /\ \E a \in 1..Len(trace) :
          /\ trace[a][1] = "provide"
          /\ plan[trace[a][2]][2] = requirements[1]
          /\ trace[a][4] = 0
    /\ ~Satisfied(requirements[2], environ_copy)
    /\ environ = environ0

(* ------------------------------ unprepare ------------------------------ *)
\* the prepare engine is not running
PrepareAtRest ==
    /\ requirements = <<>>
    /\ providers_of = [r \in ReqIds |-> <<>>]
    /\ environ = [k \in Keys |-> Unset]
    /\ current_loop = 1
    /\ nloops = 1
    /\ ncalls = 0
    /\ pc = "idle"
    /\ ui_mode = UI_MODE_NOT_INTERACTIVE
    /\ io_loop = NoLoop
    /\ old_current_loop = NoLoop
    /\ environ_copy = NoCopy
    /\ requirements_and_providers = <<>>
    /\ local_state = "unloaded"
    /\ plan = <<>>
    /\ idx = 0
    /\ failed = FALSE
    /\ result = "none"
    /\ stdout = <<>>
    /\ stderr = <<>>
    /\ printed = <<>>
    /\ trace = <<>>
    /\ environ0 = environ
    /\ loop0 = 1
    /\ previous = "none"
    /\ files = {}
    /\ created = {}

\* line 148-149: len(commands), 0 when the state has no 'shutdown_commands'
NumCommands(state) == IF state[1] = "shutdown_commands" THEN state[2] ELSE 0

\* the exit codes of the calls made for service s were all 0
AllExitedZero(s) == \A i \in 1..Len(calls) : calls[i][1] = s => calls[i][3] = 0

StateAfterShutdownKeptOnFailure(state, ok) == IF ok THEN EmptyDict ELSE state
\* line 156: the run state stored once the shutdown of a service was tried
StateAfterShutdown(state, ok) == EmptyDict

SavedOnceAllCleared(saved, states) == IF pending = {} THEN states ELSE saved
\* line 157: the state store on disk after local_state.save()
Saved(saved, states) == states

\* lines 144-146: load the local state, take its run states, copy the names
UnprepareCall ==
    /\ unprepare_pc = "idle"
    /\ run_states' = saved_run_states
    /\ run_states0' = saved_run_states
    /\ pending' = {s \in ServiceNames : saved_run_states[s] # NotRecorded}
    /\ unprepare_pc' = "for_service"
    /\ UNCHANGED <<PrepareVars, DownloadVars, OpsVars, ArchiveVars, saved_run_states, service_name, command,
                   unprepare_result, calls>>

\* lines 146-149: the loop takes the next service name
NextService(s) ==
    /\ unprepare_pc = "for_service"
    /\ s \in pending
    /\ pending' = pending \ {s}
    /\ service_name' = s
    /\ command' = 1
    /\ unprepare_pc' = "for_command"
    /\ UNCHANGED <<PrepareVars, DownloadVars, OpsVars, ArchiveVars, run_states, saved_run_states, unprepare_result,
                   calls, run_states0>>

InCommandLoop ==
    /\ unprepare_pc = "for_command"
    /\ command <= NumCommands(run_states[service_name])

\* lines 150-153: subprocess.call runs the command and returns its exit code
RunCommand(code) ==
    /\ InCommandLoop
    /\ calls' = Append(calls, <<service_name, command, code>>)
    /\ command' = command + 1
    /\ UNCHANGED <<PrepareVars, DownloadVars, OpsVars, ArchiveVars, unprepare_pc, run_states, saved_run_states, pending,
                   service_name, unprepare_result, run_states0>>

\* line 152: subprocess.call cannot start the command and raises OSError
RunCommandRaises ==
    /\ InCommandLoop
    /\ calls' = Append(calls, <<service_name, command, CannotStart>>)
    /\ unprepare_pc' = "done"
    /\ unprepare_result' = "OSError"
    /\ UNCHANGED <<PrepareVars, DownloadVars, OpsVars, ArchiveVars, run_states, saved_run_states, pending, service_name,
                   command, run_states0>>

\* lines 155-157: set_service_run_state(service_name, dict()) and save()
ClearRunState ==
    /\ unprepare_pc = "for_command"
    /\ command > NumCommands(run_states[service_name])
    /\ run_states' =
           [run_states EXCEPT ![service_name] =
               StateAfterShutdown(run_states[service_name], AllExitedZero(service_name))]
    /\ saved_run_states' = Saved(saved_run_states, run_states')
    /\ unprepare_pc' = "for_service"
    /\ UNCHANGED <<PrepareVars, DownloadVars, OpsVars, ArchiveVars, pending, service_name, command, unprepare_result,
                   calls, run_states0>>

\* the loop of line 146 is over and unprepare returns
UnprepareReturn ==
    /\ unprepare_pc = "for_service"
    /\ pending = {}
    /\ unprepare_pc' = "done"
    /\ unprepare_result' = "None"
    /\ UNCHANGED <<PrepareVars, DownloadVars, OpsVars, ArchiveVars, run_states, saved_run_states, pending, service_name,
                   command, calls, run_states0>>

InitUnprepare ==
    /\ PrepareAtRest
    /\ DownloadAtRest
    /\ OpsAtRest
    /\ ArchiveAtRest
    /\ saved_run_states \in [ServiceNames -> RunStates]
    /\ run_states = saved_run_states
    /\ run_states0 = saved_run_states
    /\ unprepare_pc = "idle"
    /\ pending = {}
    /\ service_name = 0
    /\ command = 0
    /\ unprepare_result = "none"
    /\ calls = <<>>

NextUnprepare ==
    \/ UnprepareCall
    \/ \E s \in ServiceNames : NextService(s)
    \/ \E code \in ExitCodes : RunCommand(code)
    \/ RunCommandRaises
    \/ ClearRunState
    \/ UnprepareReturn

SpecUnprepare == InitUnprepare /\ [][NextUnprepare]_vars

Recorded == {s \in ServiceNames : run_states0[s] # NotRecorded}
UnprepareReturned == unprepare_pc = "done" /\ unprepare_result = "None"
\* the calls made for service s, in order
CallsOf(s) == SelectSeq(calls, LAMBDA c : c[1] = s)

\* C12: when unprepare returns, the run state of every service that was
\* recorded at its start is dict(), in memory and in the saved file, with or
\* without shutdown_commands and whatever the commands' exit codes were
C12_ReturnLeavesRunStatesEmpty ==
    UnprepareReturned =>
        \A s \in Recorded : run_states[s] = EmptyDict /\ saved_run_states[s] = EmptyDict

\* unprepare returned; one service had commands and one of them exited
\* non-zero, another service had a run state without shutdown_commands
C12_Witness ==
    /\ UnprepareReturned
    /\ \E s \in Recorded :
          /\ NumCommands(run_states0[s]) = MaxCommands
          /\ ~AllExitedZero(s)
    /\ \E s \in Recorded : run_states0[s] = NoShutdownCommands

\* C13 (as claimed): when unprepare has ended, the shutdown commands of every
\* recorded service were each executed once, in recorded order, and every
\* recorded service was cleared: a command that fails, by exiting non-zero or
\* by not starting, stops neither the later commands nor the other services
C13_FailingCommandStopsNothing ==
    unprepare_pc = "done" =>
        \A s \in Recorded :
            /\ Len(CallsOf(s)) = NumCommands(run_states0[s])
            /\ \A i \in 1..Len(CallsOf(s)) : CallsOf(s)[i][2] = i
            /\ run_states[s] = EmptyDict

(* -------------------------- DownloadProvider --------------------------- *)
read_configAsLoaded(loaded) == loaded
\* lines 31-34: the 'source' of the config that read_config returns
read_config(loaded) == IF loaded = "unset" THEN "download" ELSE loaded

IsCheckModeNever(m) == FALSE
\* line 117
IsCheckMode(m) == m = PROVIDE_MODE_CHECK

AttemptsDownloadWhenAbsent(env, source) == env = Unset
\* line 121: whether provide calls _provide_download
AttemptsDownload(env, source) == env = Unset \/ source = "download"

_provide_downloadAlwaysFetches(existing, outcome) ==
    [filename |-> Filename, errors |-> <<>>, logs |-> <<>>,
     fetched |-> TRUE, created |-> TRUE, raised |-> "no"]
\* lines 85-106: what _provide_download returns (filename), appends to
\* context.errors and context.logs, whether it started a fetch and created the
\* file, and the exception that leaves it ("no": it returns)
_provide_download(existing, outcome) ==
    LET no == [filename |-> NoFile, errors |-> <<>>, logs |-> <<>>,
               fetched |-> FALSE, created |-> FALSE, raised |-> "no"]
    IN  IF existing # NoFile
        THEN [no EXCEPT !.filename = existing,
                        !.logs = <<"Previously downloaded file located at">>]
        ELSE CASE outcome = "200" ->
                    [no EXCEPT !.filename = Filename, !.fetched = TRUE, !.created = TRUE]
               [] outcome = "404" ->
                    [no EXCEPT !.errors = <<"Error downloading: response code">>,
                               !.fetched = TRUE]
               [] outcome = "run_sync raises" ->
                    [no EXCEPT !.errors = <<"Error downloading: exception">>,
                               !.fetched = TRUE]
               \* line 95 raises: line 103 appends, line 106 reads the unbound _ioloop
               [] outcome = "IOLoop raises" ->
                    [no EXCEPT !.errors = <<"Error downloading: exception">>,
                               !.raised = "UnboundLocalError"]
               \* line 92 is outside the try
               [] outcome = "FileDownloader raises" ->
                    [no EXCEPT !.raised = "Exception"]

\* lines 108-124: provide. The superclass provide (line 115) leaves the env
\* var alone or sets it to a configured value.
Provide(super_sets, outcome) ==
    /\ download_op = "none"
    /\ download_op' = "provide"
    /\ LET env == IF super_sets THEN "configured" ELSE context_environ
           attempt == ~IsCheckMode(context_mode) /\ AttemptsDownload(env, config_source)
           got == _provide_download(existing_filename, outcome)
       IN  /\ environ_after_super' = env
           /\ IF attempt
              THEN /\ context_errors' = context_errors \o got.errors
                   /\ context_logs' = context_logs \o got.logs
                   /\ downloaded' = (downloaded \/ got.created)
                   /\ fetches' = fetches + (IF got.fetched THEN 1 ELSE 0)
                   /\ context_environ' =
                          IF got.raised = "no" /\ got.filename # NoFile
                          THEN got.filename ELSE env
                   /\ download_result' = IF got.raised = "no" THEN "None" ELSE got.raised
              ELSE /\ context_environ' = env
                   /\ download_result' = "None"
                   /\ UNCHANGED <<context_errors, context_logs, downloaded, fetches>>
    /\ UNCHANGED <<PrepareVars, UnprepareVars, OpsVars, ArchiveVars, context_mode, config_source, existing_filename,
                   stored_source, returned_source, entry>>

\* lines 24-34: read_config
ReadConfig ==
    /\ download_op = "none"
    /\ download_op' = "read_config"
    /\ IF stored_source = "default"
       THEN download_result' = "AssertionError" /\ UNCHANGED returned_source
       ELSE download_result' = "config" /\ returned_source' = read_config(stored_source)
    /\ UNCHANGED <<PrepareVars, UnprepareVars, OpsVars, ArchiveVars, context_mode, context_environ, context_errors,
                   context_logs, config_source, existing_filename, downloaded, fetches,
                   stored_source, environ_after_super, entry>>

InitDownload ==
    /\ PrepareAtRest
    /\ UnprepareAtRest
    /\ OpsAtRest
    /\ ArchiveAtRest
    /\ download_op = "none"
    /\ download_result = "none"
    /\ context_mode \in ProvideModes
    /\ context_environ \in EnvVarValues \ {"configured"}
    /\ context_errors = <<>>
    /\ context_logs = <<>>
    /\ config_source \in {read_config(l) : l \in LoadedSources \ {"default"}}
    /\ existing_filename \in {NoFile, Filename}
    /\ downloaded = (existing_filename # NoFile)
    /\ fetches = 0
    /\ stored_source \in LoadedSources
    /\ returned_source = "none"
    /\ environ_after_super = context_environ
    /\ entry = <<context_environ, stored_source>>

NextDownload ==
    \/ \E super_sets \in BOOLEAN, outcome \in DownloadOutcomes : Provide(super_sets, outcome)
    \/ ReadConfig

SpecDownload == InitDownload /\ [][NextDownload]_vars

ProvideEnded == download_op = "provide"
\* provide has ended and its download attempt failed
DownloadFailed == ProvideEnded /\ fetches + Len(context_errors) > 0 /\ ~downloaded

\* C14 (as claimed): provide always ends by returning, and a failed download
\* leaves exactly one message in context.errors and the env var as the
\* superclass left it
C14_ProvideNeverRaises ==
    ProvideEnded =>
        /\ download_result = "None"
        /\ Len(context_errors) <= 1
        /\ DownloadFailed =>
              Len(context_errors) = 1 /\ context_environ = environ_after_super

\* C15: in check mode provide returns without starting a download or creating
\* the file, and leaves context.environ as the superclass provide left it and
\* context.errors and context.logs as they were
C15_CheckModeHasNoSideEffect ==
    (ProvideEnded /\ context_mode = PROVIDE_MODE_CHECK) =>
        /\ download_result = "None"
        /\ fetches = 0
        /\ downloaded = (existing_filename # NoFile)
        /\ context_environ = environ_after_super
        /\ context_errors = <<>>
        /\ context_logs = <<>>

\* check mode on a state where the other modes download: env var absent, no
\* file on disk
C15_Witness ==
    /\ ProvideEnded
    /\ context_mode = PROVIDE_MODE_CHECK
    /\ environ_after_super = Unset
    /\ config_source = "download"
    /\ existing_filename = NoFile

\* C16: the config that read_config returns has a 'source' other than 'unset'
\* and 'default': 'download' where 'unset' was loaded, else the loaded value;
\* the call leaves the environment and the stored source as they were
C16_ReadConfigDefaultsUnsetSource ==
    (download_op = "read_config" /\ download_result = "config") =>
        /\ returned_source \notin {"unset", "default"}
        /\ returned_source = (IF entry[2] = "unset" THEN "download" ELSE entry[2])
        /\ context_environ = entry[1]
        /\ stored_source = entry[2]

\* read_config returned 'download' for a stored 'unset'
C16_Witness ==
    /\ download_op = "read_config"
    /\ download_result = "config"
    /\ entry[2] = "unset"
    /\ returned_source = "download"

(* ----------------------------- project_ops ----------------------------- *)
problems_statusNone(p) == "None"
\* project.problems_status(): a failed status when the project has problems
problems_status(p) == IF p THEN "problems" ELSE "None"

\* the operation returns returned, having made the run did and left the
\* manifest in memory, the manifest on disk and the local state as given
Ended(called, returned, did, file, saved, local) ==
    /\ op' = called
    /\ status' = returned
    /\ ran' = did
    /\ project_file' = file
    /\ saved_project_file' = saved
    /\ local_state_variables' = local
    /\ before' = <<project_file, saved_project_file, local_state_variables>>
    /\ UNCHANGED <<PrepareVars, UnprepareVars, DownloadVars, ArchiveVars, problems>>

\* the operation returns a failed status before it has changed anything
Refused(called, returned) ==
    Ended(called, returned, "none", project_file, saved_project_file,
          local_state_variables)

_commit_requirement_if_it_worksNoReload(file, worked) ==
    IF worked = "truthy" THEN <<file, file>> ELSE <<file, saved_project_file>>
\* lines 155-170: the manifests in memory and on disk after load() or save()
_commit_requirement_if_it_works(file, worked) ==
    IF worked = "None" \/ worked = "falsy"
    THEN <<saved_project_file, saved_project_file>>
    ELSE <<file, file>>

\* the operation ends in _commit_requirement_if_it_works on the edited manifest
CommitRequirement(called, file, worked) ==
    LET now == _commit_requirement_if_it_works(file, worked)
    IN  Ended(called, worked, "prepare", now[1], now[2], local_state_variables)

\* lines 109-152
set_properties(conflict) ==
    IF problems_status(problems) # "None" THEN Refused("set_properties", "problems")
    ELSE IF conflict
    THEN Ended("set_properties", "failed", "none", saved_project_file,
               saved_project_file, local_state_variables)
    ELSE Ended("set_properties", "ok", "none", project_file \cup {"name"},
               project_file \cup {"name"}, local_state_variables)

\* lines 173-212
add_download(worked) ==
    IF problems_status(problems) # "None" THEN Refused("add_download", "problems")
    ELSE CommitRequirement("add_download", project_file \cup {"downloads"}, worked)

\* lines 240 and 860: the status prepare.unprepare returns, and the run as
\* recorded in ran
UnprepareStatus(unprepared) == IF unprepared THEN "truthy" ELSE "falsy"
UnprepareRun(unprepared) == IF unprepared THEN "unprepare" ELSE "unprepare failed"

RemovesWhateverUnprepareSays(unprepared) == TRUE
\* lines 241 and 861-862: the entry is removed when unprepare's status is truthy
Removes(unprepared) == unprepared

\* lines 215-247
remove_download(unprepared) ==
    IF problems_status(problems) # "None" THEN Refused("remove_download", "problems")
    ELSE IF "downloads" \notin project_file THEN Refused("remove_download", "failed")
    ELSE IF Removes(unprepared)
    THEN Ended("remove_download", UnprepareStatus(unprepared), UnprepareRun(unprepared),
               project_file \ {"downloads"}, project_file \ {"downloads"},
               local_state_variables)
    ELSE Ended("remove_download", UnprepareStatus(unprepared), UnprepareRun(unprepared),
               project_file, saved_project_file, local_state_variables)

\* lines 269-344; packages: "none", "good" or "bad" (a spec parse_spec rejects)
_update_env_spec(called, create, packages, worked) ==
    IF problems_status(problems) # "None" THEN Refused(called, "problems")
    ELSE IF ~create /\ "environments" \notin project_file THEN Refused(called, "failed")
    ELSE LET with_env == project_file \cup {"environments"}
         IN  IF packages = "bad"
             THEN Ended(called, "failed", "none", with_env, saved_project_file,
                        local_state_variables)
             ELSE CommitRequirement(called,
                      IF packages = "good" THEN with_env \cup {"dependencies"}
                      ELSE with_env,
                      worked)

\* lines 347-367
add_env_spec(packages, worked) ==
    /\ _update_env_spec("add_env_spec", TRUE, packages, worked)

\* lines 370-411; removed: _remove_env_path succeeded
remove_env_spec(removed) ==
    IF problems_status(problems) # "None" THEN Refused("remove_env_spec", "problems")
    ELSE IF "environments" \notin project_file THEN Refused("remove_env_spec", "failed")
    ELSE IF removed
    THEN Ended("remove_env_spec", "truthy", "none",
               project_file \ {"environments", "dependencies"},
               project_file \ {"environments", "dependencies"}, local_state_variables)
    ELSE Refused("remove_env_spec", "falsy")

\* lines 414-436
add_dependencies(packages, worked) ==
    /\ _update_env_spec("add_dependencies", FALSE, packages, worked)

\* lines 439-543
remove_dependencies(worked) ==
    IF problems_status(problems) # "None" THEN Refused("remove_dependencies", "problems")
    ELSE IF "environments" \notin project_file THEN Refused("remove_dependencies", "failed")
    ELSE CommitRequirement("remove_dependencies", project_file \ {"dependencies"}, worked)

\* lines 546-573
add_variables ==
    IF problems_status(problems) # "None" THEN Refused("add_variables", "problems")
    ELSE Ended("add_variables", "ok", "none", project_file \cup {"variables"},
               project_file \cup {"variables"}, TRUE)

\* lines 576-601
remove_variables ==
    IF problems_status(problems) # "None" THEN Refused("remove_variables", "problems")
    ELSE Ended("remove_variables", "ok", "none", project_file \ {"variables"},
               project_file \ {"variables"}, FALSE)

\* lines 604-645; conflict: the project has problems with the command added
add_command(conflict) ==
    IF problems_status(problems) # "None" THEN Refused("add_command", "problems")
    ELSE IF conflict
    THEN Ended("add_command", "failed", "none", saved_project_file,
               saved_project_file, local_state_variables)
    ELSE Ended("add_command", "ok", "none", project_file \cup {"commands"},
               project_file \cup {"commands"}, local_state_variables)

\* lines 725-755
remove_command ==
    IF problems_status(problems) # "None" THEN Refused("remove_command", "problems")
    ELSE IF "commands" \notin project_file THEN Refused("remove_command", "failed")
    ELSE Ended("remove_command", "ok", "none", project_file \ {"commands"},
               project_file \ {"commands"}, local_state_variables)

\* lines 758-822; accepted: the service type is known and the variable is free
add_service(accepted, worked) ==
    IF problems_status(problems) # "None" THEN Refused("add_service", "problems")
    ELSE IF ~accepted THEN Refused("add_service", "failed")
    ELSE CommitRequirement("add_service", project_file \cup {"services"}, worked)

\* lines 825-867; matches: how many service requirements have the name as
\* their service_type or env_var
remove_service(matches, unprepared) ==
    IF problems_status(problems) # "None" THEN Refused("remove_service", "problems")
    ELSE IF "services" \notin project_file THEN Refused("remove_service", "failed")
    ELSE IF matches > 1 THEN Refused("remove_service", "conflicting")
    ELSE IF Removes(unprepared)
    THEN Ended("remove_service", "ok", UnprepareRun(unprepared),
               project_file \ {"services"}, project_file \ {"services"},
               local_state_variables)
    ELSE Ended("remove_service", UnprepareStatus(unprepared), UnprepareRun(unprepared),
               project_file, saved_project_file, local_state_variables)

\* what result.status_for(...) of line 162 is
PrepareStatuses == {"truthy", "falsy", "None"}
PackageSpecs == {"none", "good", "bad"}

InitOps ==
    /\ PrepareAtRest
    /\ UnprepareAtRest
    /\ DownloadAtRest
    /\ ArchiveAtRest
    /\ saved_project_file \in Manifests
    /\ project_file = saved_project_file
    /\ local_state_variables \in BOOLEAN
    /\ problems \in BOOLEAN
    /\ op = "none"
    /\ status = "none"
    /\ ran = "none"
    /\ before = <<project_file, saved_project_file, local_state_variables>>

NextOps ==
    \/ \E conflict \in BOOLEAN : set_properties(conflict)
    \/ \E worked \in PrepareStatuses : add_download(worked)
    \/ \E unprepared \in BOOLEAN : remove_download(unprepared)
    \/ \E packages \in PackageSpecs, worked \in PrepareStatuses :
          add_env_spec(packages, worked)
    \/ \E removed \in BOOLEAN : remove_env_spec(removed)
    \/ \E packages \in PackageSpecs \ {"none"}, worked \in PrepareStatuses :
          add_dependencies(packages, worked)
    \/ \E worked \in PrepareStatuses : remove_dependencies(worked)
    \/ add_variables
    \/ remove_variables
    \/ \E conflict \in BOOLEAN : add_command(conflict)
    \/ remove_command
    \/ \E accepted \in BOOLEAN, worked \in PrepareStatuses : add_service(accepted, worked)
    \/ \E matches \in 1..MaxMatches, unprepared \in BOOLEAN :
          remove_service(matches, unprepared)

SpecOps == InitOps /\ [][NextOps]_vars

\* the operations that end in _commit_requirement_if_it_works
CommittingOps ==
    {"add_download", "add_service", "add_env_spec", "add_dependencies",
     "remove_dependencies"}
Now == <<project_file, saved_project_file, local_state_variables>>

\* C17: an operation that ends in _commit_requirement_if_it_works changes the
\* manifest on disk only when the status of its prepare run is truthy; when
\* that status is None or falsy, the manifest on disk is what it was before
\* the operation and the manifest in memory equals it
C17_SavedOnlyIfPrepareWorked ==
    op \in CommittingOps =>
        /\ saved_project_file # before[2] => (ran = "prepare" /\ status = "truthy")
        /\ (ran = "prepare" /\ status \in {"None", "falsy"}) =>
              /\ saved_project_file = before[2]
              /\ project_file = before[2]
        /\ (ran = "prepare" /\ status = "truthy") => saved_project_file = project_file

\* add_env_spec with good packages on a saved manifest without the
\* environment; the prepare run failed and the edit is gone from memory
C17_Witness ==
    /\ op = "add_env_spec"
    /\ ran = "prepare"
    /\ status = "falsy"
    /\ before[1] = before[2]
    /\ "environments" \notin before[1]
    /\ project_file = before[1]
    /\ saved_project_file = before[2]

\* C18: an operation called on a project with problems returns the failed
\* status of problems_status(), runs neither prepare nor unprepare and leaves
\* the manifest in memory, the manifest on disk and the local state unchanged
C18_ProblemsRefuseEveryOperation ==
    (op # "none" /\ problems) =>
        /\ status = "problems"
        /\ ran = "none"
        /\ Now = before

\* add_download was refused on a project with problems
C18_Witness ==
    /\ op = "add_download"
    /\ problems
    /\ status = "problems"
    /\ "downloads" \notin project_file

(* ------------------------------- archiver ------------------------------ *)
\* the string of a path: "/" before each component
Str(path) == Concat([i \in 1..Len(path) |-> <<"/">> \o path[i]])

\* Python's a.startswith(b) on strings
startswith(a, b) == Len(b) <= Len(a) /\ SubSeq(a, 1, Len(b)) = b

\* the path is the directory or a path below it
IsBelow(path, dir) == Len(dir) <= Len(path) /\ SubSeq(path, 1, Len(dir)) = dir

RECURSIVE Resolve(_, _)
\* os.path.realpath(os.path.abspath(os.path.join(dir, remainder))), no symlinks
Resolve(dir, remainder) ==
    IF remainder = <<>> THEN dir
    ELSE IF Head(remainder) = DotDot
    THEN Resolve(IF dir = <<>> THEN dir ELSE SubSeq(dir, 1, Len(dir) - 1), Tail(remainder))
    ELSE Resolve(Append(dir, Head(remainder)), Tail(remainder))

\* lines 411-465 with project_dir None: whether an error was appended (None
\* is returned), the canonical project directory and the destinations
_get_source_and_dest_files(listed, exists) ==
    IF listed = <<>> THEN [error |-> TRUE, project_dir |-> ParentDir, dests |-> <<>>]
    ELSE LET candidate_prefix == listed[1][1]
             canonical_project_dir == Resolve(ParentDir, <<candidate_prefix>>)
             dest(i) == Resolve(canonical_project_dir, Tail(listed[i]))
             with_remainder == SelectSeq([i \in 1..Len(listed) |-> i],
                                         LAMBDA i : Len(listed[i]) > 1)
         IN  [error |->
                 \/ candidate_prefix = DotDot
                 \/ canonical_project_dir \in exists
                 \/ \E i \in 1..Len(listed) :
                       \/ listed[i][1] # candidate_prefix
                       \/ /\ Len(listed[i]) > 1
                          /\ ~startswith(Str(dest(i)), Str(canonical_project_dir)),
              project_dir |-> canonical_project_dir,
              dests |-> [k \in 1..Len(with_remainder) |-> dest(with_remainder[k])]]

\* lines 475-546: extract_files writes the first good destinations and, when
\* there are more, raises IOError; removed: the shutil.rmtree of line 536
\* removed the project directory (it raised otherwise, lines 537-538)
_unarchive_project(good, removed) ==
    /\ unarchive_result = "none"
    /\ LET got == _get_source_and_dest_files(names, on_disk)
           written == {got.project_dir} \cup {got.dests[k] : k \in 1..good}
       IN  IF got.error \/ got.dests = <<>>
           THEN unarchive_result' = "failed" /\ UNCHANGED on_disk
           ELSE /\ good <= Len(got.dests)
                /\ IF good = Len(got.dests)
                   THEN unarchive_result' = "success" /\ on_disk' = on_disk \cup written
                   \* shutil.rmtree(canonical_project_dir), then the except of line 545
                   ELSE /\ unarchive_result' = "failed"
                        /\ on_disk' =
                               IF removed
                               THEN {path \in on_disk \cup written :
                                        ~IsBelow(path, got.project_dir)}
                               ELSE on_disk \cup written
    /\ UNCHANGED <<PrepareVars, UnprepareVars, DownloadVars, OpsVars, names, on_disk0>>

InitArchive ==
    /\ PrepareAtRest
    /\ UnprepareAtRest
    /\ DownloadAtRest
    /\ OpsAtRest
    /\ names \in UNION {[1..n -> EntryNames] : n \in 0..MaxEntries}
    /\ on_disk \in SUBSET {Append(ParentDir, <<"p">>), Append(ParentDir, <<"p", "q">>)}
    /\ unarchive_result = "none"
    /\ on_disk0 = on_disk

NextArchive ==
    \E good \in 0..MaxEntries, removed \in BOOLEAN : _unarchive_project(good, removed)

SpecArchive == InitArchive /\ [][NextArchive]_vars

\* the canonical project directory of the call: the first entry's first
\* component under the parent directory
ProjectDir == Resolve(ParentDir, <<names[1][1]>>)
\* an entry starts with "..", or with another component than the first
\* entry, or its resolved destination is not the project directory or below
Hostile ==
    \E i \in 1..Len(names) :
        \/ names[i][1] = DotDot
        \/ names[i][1] # names[1][1]
        \/ ~IsBelow(Resolve(ProjectDir, Tail(names[i])), ProjectDir)

\* C19 (as claimed): when the call has ended, every path it made is the
\* project directory or below it; and for an archive with a hostile entry the
\* call failed and made nothing
C19_NothingExtractedOutside ==
    (unarchive_result # "none" /\ names # <<>>) =>
        /\ \A path \in on_disk \ on_disk0 : IsBelow(path, ProjectDir)
        /\ Hostile => (unarchive_result = "failed" /\ on_disk = on_disk0)

\* C21: a plan entry whose requirement is satisfied in the working copy when
\* its turn comes, as is every later provider of a requirement that an earlier
\* provider satisfied, gets no read_config and no provide call; a read_config
\* call is made only for an unsatisfied requirement, and a provide call always
\* directly follows the read_config call of the same entry
C21_SatisfiedEntryCallsNoProvider ==
    /\ [][(InPlanLoop /\ Satisfied(requirement, environ_copy))
              => ProviderCalls' = ProviderCalls]_vars
    /\ [](\A a \in 1..Len(trace) :
            /\ trace[a][1] = "read_config" =>
                  /\ trace[a][3] # None
                  /\ a < Len(trace) =>
                        (trace[a + 1][1] = "provide" /\ trace[a + 1][2] = trace[a][2])
            /\ trace[a][1] = "provide" =>
                  /\ a > 1
                  /\ trace[a - 1][1] = "read_config"
                  /\ trace[a - 1][2] = trace[a][2])

\* the first provider of a requirement with two providers ran and satisfied
\* it, and the second provider's entry was skipped
C21_Witness ==
    \E a \in 1..(Len(trace) - 1) :
        /\ trace[a][1] = "provide"
        /\ trace[a][3] # None
        /\ trace[a + 1][1] = "skip"
        /\ trace[a + 1][2] = trace[a][2] + 1
        /\ plan[trace[a][2]][2] = plan[trace[a + 1][2]][2]

\* C22: throughout the plan loop there is one working copy and one local-state
\* handle: the copy changes only by a provider's write and keeps that write for
\* the later entries, the caller's environ does not change, each entry's
\* why_not is that of the copy as the earlier entries left it; and the lines
\* printed for an entry are those of its own new context, never an earlier
\* entry's again
C22_OneWorkingCopyNewContextPerEntry ==
    /\ [][InPlanLoop =>
              /\ local_state' = local_state
              /\ environ' = environ
              /\ environ_copy' # environ_copy => ProviderCalls' # ProviderCalls
              /\ trace' # trace =>
                     trace'[Len(trace) + 1][3] = why_not_provided(requirement, environ_copy)]_vars
    /\ [](\A a \in 1..Len(printed) :
            printed[a][1] \in {"log", "error"} =>
                /\ \A b \in 1..Len(printed) : printed[b] = printed[a] => b = a
                /\ \E e \in 1..Len(trace) :
                      /\ trace[e][1] = "provide"
                      /\ trace[e][4] > 0
                      /\ printed[a][2] = <<"entry", trace[e][2]>>)

\* two entries were executed in one call: the second one's provider ran on the
\* copy the first one had written to, and each had lines of its own printed
C22_Witness ==
    /\ \E a, b \in 1..Len(trace) :
          /\ a < b
          /\ trace[a][1] = "provide"
          /\ trace[b][1] = "provide"
          /\ ErrorLine(trace[a][2], 1) \in Range(printed)
          /\ ErrorLine(trace[b][2], 1) \in Range(printed)
    /\ \E k \in Keys : environ_copy[k] # environ[k]

\* the lines printed for plan entry i, in print order
PrintedFor(i) == SelectSeq(printed, LAMBDA l : l[2] = <<"entry", i>>)

C30_CommitRemovesNoKey ==
    (ncalls >= 1) => \A k \in Keys : environ0[k] # Unset => environ[k] # Unset

\* a successful call whose working copy lacks a key that the caller's environ
\* had at entry and still has
C30_Witness ==
    /\ Succeeded
    /\ \E k \in Keys :
          /\ environ0[k] # Unset
          /\ environ_copy[k] = Unset
          /\ environ[k] = environ0[k]
    /\ \E k \in Keys : environ[k] # environ0[k]

\* provide called _provide_download: every such call leaves a log, an error,
\* a started fetch or an exception
Attempted ==
    /\ ProvideEnded
    /\ \/ fetches > 0
       \/ context_errors # <<>>
       \/ context_logs # <<>>
       \/ download_result # "None"

\* C24: outside check mode, provide tries to obtain the file exactly when the
\* env var is absent from context.environ or the config source is 'download';
\* without an attempt the env var keeps its value, and the env var changes
\* only to the filename of a file that was obtained
C24_AttemptIffAbsentOrSourceDownload ==
    (ProvideEnded /\ context_mode # PROVIDE_MODE_CHECK) =>
        /\ Attempted <=> (environ_after_super = Unset \/ config_source = "download")
        /\ ~Attempted => context_environ = environ_after_super
        /\ context_environ # environ_after_super =>
              /\ context_environ = Filename
              /\ downloaded
              /\ download_result = "None"

\* the env var was set and the source 'download': the file was fetched and
\* the env var reassigned
C24_Witness ==
    /\ ProvideEnded
    /\ context_mode # PROVIDE_MODE_CHECK
    /\ environ_after_super = "old"
    /\ config_source = "download"
    /\ fetches = 1
    /\ context_environ = Filename

\* C25: when the analysis found the file, a provide that reaches
\* _provide_download starts no fetch, appends one log and no error, and ends
\* with the env var set to the existing filename; a fetch is started only when
\* no existing file was found
C25_ExistingFileIsNotFetched ==
    /\ (/\ ProvideEnded
        /\ context_mode # PROVIDE_MODE_CHECK
        /\ AttemptsDownload(environ_after_super, config_source)
        /\ existing_filename # NoFile) =>
            /\ fetches = 0
            /\ Len(context_logs) = 1
            /\ context_errors = <<>>
            /\ download_result = "None"
            /\ context_environ = existing_filename
    /\ fetches > 0 => existing_filename = NoFile

\* the file existed, the env var was set to something else and the source was
\* 'download': the env var now names the existing file
C25_Witness ==
    /\ ProvideEnded
    /\ existing_filename = Filename
    /\ environ_after_super = "old"
    /\ context_environ = Filename
    /\ Len(context_logs) = 1

\* C26: the run state of a service is cleared and saved only once all of its
\* shutdown commands were attempted, and while the commands of a service are
\* up, the saved store shows every service handled before it as cleared and
\* this one as recorded; the commands of one service are not interleaved with
\* another's
C26_ClearedAndSavedServiceByService ==
    /\ \A s \in Recorded :
          /\ saved_run_states[s] # run_states0[s] =>
                /\ saved_run_states[s] = EmptyDict
                /\ Len(CallsOf(s)) = NumCommands(run_states0[s])
                /\ s \notin pending
          /\ (unprepare_pc = "for_command" /\ service_name = s) =>
                /\ saved_run_states[s] = run_states0[s]
                /\ \A t \in Recorded \ (pending \cup {s}) :
                      saved_run_states[t] = EmptyDict
    /\ \A i, j, k \in 1..Len(calls) :
          (i < j /\ j < k /\ calls[i][1] = calls[k][1]) => calls[j][1] = calls[i][1]

\* the first command of a service is about to start; another service had all
\* its commands run before and is saved as cleared
C26_Witness ==
    /\ unprepare_pc = "for_command"
    /\ command = 1
    /\ NumCommands(run_states[service_name]) = MaxCommands
    /\ \E t \in Recorded \ {service_name} :
          /\ Len(CallsOf(t)) = MaxCommands
          /\ saved_run_states[t] = EmptyDict

C28_FailedOperationLeavesNothingUnsaved ==
    /\ (op # "none" /\ status \notin {"truthy", "ok"}) =>
          project_file = saved_project_file
    /\ (op \in {"add_variables", "add_command", "set_properties"} /\ status = "ok") =>
          \A e \in ManifestEntries \ {"variables", "commands", "name"} :
              e \in saved_project_file <=> e \in before[2]

\* C29 (as claimed): the call makes paths only in the project directory, which
\* did not exist before; when that directory existed the call fails and makes
\* nothing; a call that failed leaves no project directory it made; and no
\* path is made in a directory that existed before
C29_UnpacksOnlyIntoOwnDirectory ==
    (unarchive_result # "none" /\ names # <<>>) =>
        /\ \A path \in on_disk \ on_disk0 :
              IsBelow(path, ProjectDir) /\ ProjectDir \notin on_disk0
        /\ ProjectDir \in on_disk0 => (unarchive_result = "failed" /\ on_disk = on_disk0)
        /\ (unarchive_result = "failed" /\ ProjectDir \notin on_disk0) =>
              ProjectDir \notin on_disk
        /\ \A dir \in on_disk0 : \A path \in on_disk \ on_disk0 : ~IsBelow(path, dir)

====
